---------------------------- MODULE Spec2Model ----------------------------
(***************************************************************************)
(* Project-line allocation engine of src/src/api/projects.ts.              *)
(*                                                                         *)
(* The store (tables project_lines and consultant_bookings) is the shared  *)
(* state.  Every exported operation is an async function: it runs local    *)
(* code up to its next storage call, and the storage call takes effect     *)
(* atomically on the store.  The action named after an exported function   *)
(* is its invocation: the local code up to and including its first storage *)
(* call.  After that a client's pc names the storage call it is about to   *)
(* make; one action performs that call together with the local code that   *)
(* follows it up to the next call.                                         *)
(*                                                                         *)
(* Row ids are opaque to the program (compared for equality only): the     *)
(* store hands out an id that nothing refers to, and the model takes the   *)
(* smallest such id.                                                       *)
(*                                                                         *)
(* Units: amounts are whole cents, quantities are hundredths of a unit     *)
(* (one day = 1 unit = Scale hundredths); dates are day numbers, so that   *)
(* the order of YYYY-MM-DD strings is the order of the numbers.  NULL (0)  *)
(* stands for SQL null / a falsy value in every nullable column.           *)
(***************************************************************************)
EXTENDS Integers, Sequences, FiniteSets, TLC

\* ------------------------------------------------------------------ bounds
\* Last calendar day a selection may name (days are 1..MaxDay).
MaxDay == 3
\* Longest `days` array handed to allocateProjectLineDays.
MaxSel == 3
MaxConcSel == 2
\* Last day and longest array given to groupIntoConsecutiveRanges on its own.
MaxRangeDay == 5
MaxRangeSel == 4
MaxCentDay == 7
MaxCentSel == 4
MaxCentLines == 5
MaxCentBookings == 4
\* Rows of project_lines that may exist (or be referred to) at once.
MaxLines == 3
\* Rows of consultant_bookings that may exist (or be referred to) at once.
MaxBookings == 2
\* Most quantity (hundredths) and amount (cents) the rows of the store may
\* add up to after an edit: edits are the one way the totals grow.
MaxQuantity == 600
MaxAmount == 200
\* Clients that may have an operation in flight at once (concurrent spec).
NumClients == 2
\* Consultants (resources) an allocation may name.
NumConsultants == 2

\* ------------------------------------------------------- program constants
NULL == 0
\* round2 keeps two decimals: values are held in hundredths.
Scale == 100

Days == 1..MaxDay
Clients == 1..NumClients
SeqClients == {1}
Consultants == 1..NumConsultants
LineIds == 1..MaxLines
BookingIds == 1..MaxBookings
Projects == {1}
\* soldQuantity values a caller submits (hundredths): 0 is invalid, 1.5 and 3.
SoldQuantities == {0, 150, 300}
\* amount values a caller submits (cents).
Amounts == {100}

\* `days` arrays: every sequence of at most MaxSel entries, 0 being a blank
\* (falsy) entry that filter(Boolean) drops.
RECURSIVE SeqsUpTo(_, _)
SeqsUpTo(S, n) ==
    IF n = 0 THEN {<<>>}
    ELSE LET shorter == SeqsUpTo(S, n - 1)
         IN  shorter \cup {Append(s, x) : s \in {t \in shorter : Len(t) = n - 1}, x \in S}

DayArrays == SeqsUpTo(0..MaxDay, MaxSel)
ConcDayArrays == SeqsUpTo(Days, MaxConcSel)
RangeDayArrays == SeqsUpTo(0..MaxRangeDay, MaxRangeSel)

\* ----------------------------------------------------------- pure helpers
\* round2(n) = Math.round((n + EPSILON) * 100) / 100 for the value num/den
\* given in hundredths: Math.round is floor(x + 1/2).
round2(num, den) == (2 * num + den) \div (2 * den)

RECURSIVE SortedSeq(_)
SortedSeq(S) ==
    IF S = {} THEN <<>>
    ELSE LET m == CHOOSE x \in S : \A y \in S : x <= y
         IN  <<m>> \o SortedSeq(S \ {m})

\* (mutant) the distinct days in the order given, without the sort.
RECURSIVE UniqInOrder(_)
UniqInOrder(days) ==
    IF Len(days) = 0 THEN <<>>
    ELSE LET front == UniqInOrder(SubSeq(days, 1, Len(days) - 1))
             d == days[Len(days)]
         IN  IF d = NULL \/ \E k \in DOMAIN front : front[k] = d
             THEN front
             ELSE Append(front, d)

\* Array.from(new Set(days.filter(Boolean))).sort()
UniqSorted(days) == SortedSeq({days[i] : i \in DOMAIN days} \ {NULL})

\* (mutant) any later day continues the current range.
isNextDayOrLater(diff) == diff >= 1

\* Line 58: the next day of the selection continues the current range.
isNextDay(diff) == diff = 1

\* The loop of groupIntoConsecutiveRanges from index i on.
RECURSIVE RangeLoop(_, _, _, _, _, _)
RangeLoop(uniq, i, curStart, curEnd, bucket, ranges) ==
    IF i > Len(uniq)
    THEN Append(ranges, [start |-> curStart, end |-> curEnd,
                         qty |-> Len(bucket), days |-> bucket])
    ELSE LET diff == uniq[i] - curEnd
         IN  IF isNextDay(diff)
             THEN RangeLoop(uniq, i + 1, curStart, uniq[i], Append(bucket, uniq[i]), ranges)
             ELSE RangeLoop(uniq, i + 1, uniq[i], uniq[i], <<uniq[i]>>,
                            Append(ranges, [start |-> curStart, end |-> curEnd,
                                            qty |-> Len(bucket), days |-> bucket]))

\* (mutant) the range still open when the loop ends is not pushed.
groupWithoutLastRange(daysIso) ==
    LET uniq == UniqSorted(daysIso)
        all == IF Len(uniq) = 0 THEN <<>>
               ELSE RangeLoop(uniq, 2, uniq[1], uniq[1], <<uniq[1]>>, <<>>)
    IN  IF Len(all) = 0 THEN <<>> ELSE SubSeq(all, 1, Len(all) - 1)

groupIntoConsecutiveRanges(daysIso) ==
    LET uniq == UniqSorted(daysIso)
    IN  IF Len(uniq) = 0 THEN <<>>
        ELSE RangeLoop(uniq, 2, uniq[1], uniq[1], <<uniq[1]>>, <<>>)

\* ------------------------------------------------------------------- state
VARIABLES
    lines,          \* table project_lines: a set of rows
    bookings,       \* table consultant_bookings: a set of rows
    pc,             \* per client: the storage call it is about to make
    loc,            \* per client: the locals of its operation in flight
    groups          \* history: per group id, what createProjectLine was given

vars == <<lines, bookings, pc, loc, groups>>

NoRow == [id |-> NULL]

\* History of a client: the last allocate it completed (the remainder as that
\* allocate read it, the rows it created) as long as the client has since
\* done nothing but delete those rows, and which of them are left.
NoTrip == [rem |-> NoRow, created |-> {}, left |-> {}]

\* Locals of a client with no operation in flight.
NoLoc ==
    [op |-> "none", lineId |-> NULL, consultantId |-> NULL,
     selectedDays |-> <<>>, base |-> NoRow, toInsert |-> <<>>, created |-> <<>>,
     allocatedQtySum |-> 0, allocatedAmountSum |-> 0, amountPlanned |-> 0,
     i |-> 0, newQty |-> 0, newAmount |-> 0, bookingIds |-> {}, remId |-> NULL,
     syncLine |-> NULL, syncData |-> NoRow, syncBooking |-> NULL,
     daysIso |-> <<>>, ranges |-> <<>>, trip |-> NoTrip,
     result |-> "none", failed |-> FALSE, pre |-> NoRow,
     call |-> [lineId |-> NULL, consultantId |-> NULL, days |-> {}, count |-> 0]]

\* .eq("id", id).single(): the row, or NoRow when the call returns an error.
single(id) ==
    IF \E r \in lines : r.id = id
    THEN CHOOSE r \in lines : r.id = id
    ELSE NoRow

\* update({f1: v1, f2: v2}).eq("id", id) on project_lines; a row that is
\* absent is not an error.
updateLine2(id, f1, v1, f2, v2) ==
    {IF r.id = id THEN [r EXCEPT ![f1] = v1, ![f2] = v2] ELSE r : r \in lines}

\* update({booking_id: v}).eq("id", id) on project_lines.
updateBookingId(id, v) ==
    {IF r.id = id THEN [r EXCEPT !.booking_id = v] ELSE r : r \in lines}

\* The remainder test the operations apply to a row they have read.
isRemainder(r) ==
    /\ r.consultant_id = NULL
    /\ r.planned_start_date = NULL
    /\ r.planned_end_date = NULL
    /\ r.planned_quantity = 0

\* group_id is not written by createProjectLine: the store fills it in.
DefaultGroupId(id) == id

\* Ids something in the state refers to.
RowIdsOf(rows) == {r.id : r \in rows} \cup {r.group_id : r \in rows}

LocLineIds(l) ==
    {l.lineId, l.base.id, l.remId, l.syncLine, l.call.lineId}
    \cup {l.created[k] : k \in DOMAIN l.created}
    \cup (IF l.base = NoRow THEN {} ELSE {l.base.group_id})
    \cup (IF l.pre = NoRow THEN {}
          ELSE RowIdsOf(l.pre.lines) \cup {b.notes.line : b \in l.pre.bookings})

UsedLineIds ==
    RowIdsOf(lines) \cup {b.notes.line : b \in bookings} \cup {g.gid : g \in groups}
    \cup UNION {LocLineIds(loc[c]) : c \in Clients}

LocBookingIds(l) ==
    {l.syncBooking} \cup l.bookingIds
    \cup (IF l.base = NoRow THEN {} ELSE {l.base.booking_id})
    \cup (IF l.syncData = NoRow THEN {} ELSE {l.syncData.booking_id})
    \cup (IF l.pre = NoRow THEN {}
          ELSE {b.id : b \in l.pre.bookings} \cup {r.booking_id : r \in l.pre.lines})

UsedBookingIds ==
    {b.id : b \in bookings} \cup {r.booking_id : r \in lines}
    \cup UNION {LocBookingIds(loc[c]) : c \in Clients}

\* The ids the store gives to rows inserted now, in insertion order.
FreshLineIds == SortedSeq(LineIds \ UsedLineIds)

FreshBookingIds == SortedSeq(BookingIds \ UsedBookingIds)

\* An operation begins: its locals, and for the history the store as it
\* found it (pre) and what it was called with (call).
Begin(op, lineId) ==
    [NoLoc EXCEPT !.op = op, !.lineId = lineId,
                  !.pre = [lines |-> lines, bookings |-> bookings],
                  !.call.lineId = lineId]

\* The operation of client c returns normally.
TripAfter(trip, l) ==
    IF l.op = "allocate"
    THEN [rem |-> l.base,
          created |-> {l.created[k] : k \in DOMAIN l.created},
          left |-> {l.created[k] : k \in DOMAIN l.created}]
    ELSE IF l.op = "delete" /\ l.lineId \in trip.left
    THEN [trip EXCEPT !.left = @ \ {l.lineId}]
    ELSE NoTrip

Finish(c, l) ==
    /\ pc' = [pc EXCEPT ![c] = "done"]
    /\ loc' = [loc EXCEPT ![c] = [l EXCEPT !.result = "ok",
                                           !.trip = TripAfter(loc[c].trip, l)]]

\* The operation of client c throws err: its locals are gone, and of the
\* call the history keeps the target, the size of the selection and whether
\* a storage call has failed.
Throw(c, l, err) ==
    /\ pc' = [pc EXCEPT ![c] = "done"]
    /\ loc' = [loc EXCEPT ![c] =
                  [NoLoc EXCEPT !.op = l.op, !.pre = l.pre, !.result = err,
                                !.failed = l.failed,
                                !.call.lineId = l.call.lineId,
                                !.call.count = l.call.count]]

Goto(c, l, label) ==
    /\ pc' = [pc EXCEPT ![c] = label]
    /\ loc' = [loc EXCEPT ![c] = [l EXCEPT !.trip = loc[c].trip]]

Init ==
    /\ lines = {}
    /\ bookings = {}
    /\ pc = [c \in Clients |-> "idle"]
    /\ loc = [c \in Clients |-> NoLoc]
    /\ groups = {}

\* The caller has its result; the client is free for the next operation.
Return(c) ==
    /\ pc[c] = "done"
    /\ pc' = [pc EXCEPT ![c] = "idle"]
    /\ loc' = [loc EXCEPT ![c] = [NoLoc EXCEPT !.trip = loc[c].trip]]
    /\ UNCHANGED <<lines, bookings, groups>>

\* --------------------------------------------------------- syncBookingForLine
\* syncBookingForLine(lineId) is entered with pc = "sync_select".
EnterSync(c, l, lineId) ==
    Goto(c, [l EXCEPT !.syncLine = lineId, !.syncData = NoRow, !.syncBooking = NULL],
         "sync_select")

\* syncBookingForLine returns to its caller: allocateProjectLineDays goes on
\* with the next created row, every other caller is finished.
LeaveSync(c, l) ==
    IF l.op = "allocate" /\ l.i < Len(l.created)
    THEN EnterSync(c, [l EXCEPT !.i = l.i + 1], l.created[l.i + 1])
    ELSE Finish(c, l)

hasAll(data) ==
    /\ data.consultant_id # NULL
    /\ data.planned_start_date # NULL
    /\ data.planned_end_date # NULL
    /\ data.planned_quantity > 0

\* The booking columns syncBookingForLine writes from the row it read.
BookingFields(data) ==
    [consultant_id |-> data.consultant_id,
     kind |-> "booking",
     notes |-> [line |-> data.id, qty |-> data.planned_quantity],
     start_date |-> data.planned_start_date,
     end_date |-> data.planned_end_date]

\* (mutant) the booking the row already has is not looked at.
SyncReadIgnoringBooking(c, l) ==
    LET data == single(l.syncLine)
    IN  IF data = NoRow
        THEN Throw(c, l, "not_found")
        ELSE LET l2 == [l EXCEPT !.syncData = data, !.syncBooking = NULL]
             IN  IF ~hasAll(data)
                 THEN LeaveSync(c, l2)
                 ELSE Goto(c, l2, "sync_insert_booking")

\* Lines 591-645: the read of the row and the choice of what to do.
SyncRead(c, l) ==
    LET data == single(l.syncLine)
    IN  IF data = NoRow
        THEN Throw(c, l, "not_found")
        ELSE LET l2 == [l EXCEPT !.syncData = data, !.syncBooking = data.booking_id]
             IN  IF ~hasAll(data)
                 THEN IF data.booking_id # NULL
                      THEN Goto(c, l2, "sync_delete_booking")
                      ELSE LeaveSync(c, l2)
                 ELSE IF data.booking_id # NULL
                      THEN Goto(c, l2, "sync_update_booking")
                      ELSE Goto(c, l2, "sync_insert_booking")

SyncSelect(c) ==
    /\ pc[c] = "sync_select"
    /\ SyncRead(c, loc[c])
    /\ UNCHANGED <<lines, bookings, groups>>

\* syncBookingForLine called on its own.
syncBookingForLine(c, lineId) ==
    /\ pc[c] = "idle"
    /\ SyncRead(c, [Begin("sync", lineId) EXCEPT !.syncLine = lineId])
    /\ UNCHANGED <<lines, bookings, groups>>

\* syncBookingForLine called a second time on the row it has just synced,
\* whether the first call was made on its own or was the last call of an
\* operation.
syncBookingForLineAgain(c) ==
    /\ pc[c] = "done"
    /\ loc[c].result = "ok"
    /\ loc[c].syncLine # NULL
    /\ SyncRead(c, [Begin("sync_again", loc[c].syncLine) EXCEPT
                        !.syncLine = loc[c].syncLine])
    /\ UNCHANGED <<lines, bookings, groups>>

SyncDeleteBooking(c) ==
    /\ pc[c] = "sync_delete_booking"
    /\ bookings' = {b \in bookings : b.id # loc[c].syncBooking}
    /\ Goto(c, loc[c], "sync_clear_id")
    /\ UNCHANGED <<lines, groups>>

SyncClearId(c) ==
    /\ pc[c] = "sync_clear_id"
    /\ lines' = updateBookingId(loc[c].syncLine, NULL)
    /\ LeaveSync(c, loc[c])
    /\ UNCHANGED <<bookings, groups>>

SyncUpdateBooking(c) ==
    /\ pc[c] = "sync_update_booking"
    /\ bookings' = {IF b.id = loc[c].syncBooking
                    THEN [id |-> b.id] @@ BookingFields(loc[c].syncData)
                    ELSE b : b \in bookings}
    /\ LeaveSync(c, loc[c])
    /\ UNCHANGED <<lines, groups>>

\* Lines 662-674, the store taking the id of the new booking from fresh.
SyncInsertBookingFrom(c, fresh) ==
    /\ pc[c] = "sync_insert_booking"
    /\ Len(fresh) >= 1
    /\ LET id == fresh[1]
       IN  /\ bookings' = bookings \cup {[id |-> id] @@ BookingFields(loc[c].syncData)}
           /\ Goto(c, [loc[c] EXCEPT !.syncBooking = id], "sync_set_id")
    /\ UNCHANGED <<lines, groups>>

SyncInsertBooking(c) == SyncInsertBookingFrom(c, FreshBookingIds)

\* (mutant) the id of the booking just inserted is not written to the row.
SyncSetIdSkipped(c) ==
    /\ pc[c] = "sync_set_id"
    /\ LeaveSync(c, loc[c])
    /\ UNCHANGED <<lines, bookings, groups>>

SyncSetId(c) ==
    /\ pc[c] = "sync_set_id"
    /\ lines' = updateBookingId(loc[c].syncLine, loc[c].syncBooking)
    /\ LeaveSync(c, loc[c])
    /\ UNCHANGED <<bookings, groups>>

\* ---------------------------------------------------------- createProjectLine
\* Lines 247-265: the header row of a new group, the initial remainder.
headerRow(id, projectId, input) ==
    [id |-> id,
     project_id |-> projectId,
     group_id |-> DefaultGroupId(id),
     sold_total |-> input.soldQuantity,
     line_quantity |-> input.soldQuantity,
     amount |-> input.amount,
     consultant_id |-> NULL,
     planned_start_date |-> NULL,
     planned_end_date |-> NULL,
     planned_quantity |-> 0,
     realized_quantity |-> 0,
     booking_id |-> NULL]

createProjectLine(c, projectId, input) ==
    /\ pc[c] = "idle"
    /\ LET l == Begin("create", NULL)
           id == FreshLineIds[1]
           row == headerRow(id, projectId, input)
       IN  IF ~(input.soldQuantity > 0)
           THEN /\ Throw(c, l, "invalid_sold")
                /\ UNCHANGED <<lines, groups>>
           ELSE /\ Len(FreshLineIds) >= 1
                /\ lines' = lines \cup {row}
                /\ groups' = groups \cup {[gid |-> row.group_id,
                                           soldTotal |-> input.soldQuantity,
                                           amount |-> input.amount]}
                /\ EnterSync(c, [l EXCEPT !.lineId = id], id)
    /\ UNCHANGED bookings

\* ---------------------------------------------------------- updateProjectLine
\* Lines 275-290: every editable column is written from the input; a
\* lineQuantity that is not given (NULL) falls back to soldQuantity.
updateProjectLine(c, id, input) ==
    /\ pc[c] = "idle"
    /\ lines' = {IF r.id = id
                 THEN [r EXCEPT
                          !.sold_total = input.soldQuantity,
                          !.line_quantity = IF input.lineQuantity # NULL
                                            THEN input.lineQuantity
                                            ELSE input.soldQuantity,
                          !.amount = input.amount,
                          !.consultant_id = input.consultantId,
                          !.planned_start_date = input.plannedStartDate,
                          !.planned_end_date = input.plannedEndDate,
                          !.planned_quantity = input.plannedQuantity,
                          !.realized_quantity = input.realizedQuantity]
                 ELSE r : r \in lines}
    /\ EnterSync(c, Begin("update", id), id)
    /\ UNCHANGED <<bookings, groups>>

\* ---------------------------------------------------- allocateProjectLineDays
\* (mutant) the share of a range is cut to the cent below.
segShareTruncated(remainderAmount, seg, remainderQty) ==
    (remainderAmount * seg.qty * Scale) \div remainderQty

\* Line 363: the share of a range that is not the last.
segShare(remainderAmount, seg, remainderQty) ==
    round2(remainderAmount * seg.qty * Scale, remainderQty)

\* (mutant) an allocation row is inserted with nothing planned.
segPlannedNone(seg) == 0

\* Line 383: an allocation row is planned for the whole of its range.
segPlanned(seg) == seg.qty * Scale

\* The loop that builds toInsert, from range i on: every range but the last
\* takes its share of the remainder's amount, the last takes what is left.
RECURSIVE AllocLoop(_, _, _, _, _, _, _)
AllocLoop(base, consultantId, ranges, i, allocatedAmountSum, allocatedQtySum, toInsert) ==
    IF i > Len(ranges)
    THEN [toInsert |-> toInsert,
          allocatedAmountSum |-> allocatedAmountSum,
          allocatedQtySum |-> allocatedQtySum]
    ELSE LET seg == ranges[i]
             segAmount ==
                 IF i < Len(ranges)
                 THEN segShare(base.amount, seg, base.line_quantity)
                 ELSE round2(base.amount - allocatedAmountSum, 1)
             row == [project_id |-> base.project_id,
                     group_id |-> base.group_id,
                     sold_total |-> base.sold_total,
                     line_quantity |-> seg.qty * Scale,
                     consultant_id |-> consultantId,
                     planned_start_date |-> seg.start,
                     planned_end_date |-> seg.end,
                     planned_quantity |-> segPlanned(seg),
                     realized_quantity |-> 0,
                     amount |-> segAmount,
                     booking_id |-> NULL]
         IN  AllocLoop(base, consultantId, ranges, i + 1,
                       round2(allocatedAmountSum + segAmount, 1),
                       allocatedQtySum + seg.qty * Scale,
                       Append(toInsert, row))

\* (mutant) the selection is measured against the sold total.
selectionExceedsSold(totalQty, base) == totalQty > base.sold_total

\* Line 346: more days than the remainder has left.
selectionExceeds(totalQty, base) == totalQty > base.line_quantity

\* Lines 394-395: what the remainder keeps.
newRemainderQty(remainderQty, allocatedQtySum) ==
    round2(remainderQty - allocatedQtySum, 1)

\* (mutant) the remainder keeps its amount.
newRemainderAmountStale(remainderAmount, allocatedAmountSum) == remainderAmount

newRemainderAmount(remainderAmount, allocatedAmountSum) ==
    round2(remainderAmount - allocatedAmountSum, 1)

\* Lines 303-350: the error allocateProjectLineDays throws for a selection
\* and the row it read, in the order of its checks, or "ok".
allocateError(selectedDays, base, ranges) ==
    IF Len(selectedDays) = 0 THEN "no_days"
    ELSE IF base = NoRow THEN "not_found"
    ELSE IF ~isRemainder(base) THEN "not_remainder"
    ELSE IF ~(base.sold_total > 0) THEN "invalid_sold"
    ELSE IF ~(base.line_quantity > 0) THEN "nothing_left"
    ELSE IF selectionExceeds(Len(selectedDays) * Scale, base) THEN "exceeds"
    ELSE IF Len(ranges) = 0 THEN "invalid_selection"
    ELSE "ok"

\* Lines 302-388: the selection, the read of the target row, the checks and
\* the rows to insert.
allocateProjectLineDays(c, lineId, consultantId, days) ==
    /\ pc[c] = "idle"
    /\ LET selectedDays == UniqSorted(days)
           given == {days[k] : k \in DOMAIN days} \ {NULL}
           l == [Begin("allocate", lineId) EXCEPT
                     !.consultantId = consultantId,
                     !.selectedDays = selectedDays,
                     !.call = [lineId |-> lineId, consultantId |-> consultantId,
                               days |-> given, count |-> Cardinality(given)]]
           base == single(lineId)
           ranges == groupIntoConsecutiveRanges(selectedDays)
           err == allocateError(selectedDays, base, ranges)
           built == AllocLoop(base, consultantId, ranges, 1, 0, 0, <<>>)
       IN  IF err # "ok" THEN Throw(c, l, err)
           ELSE Goto(c, [l EXCEPT !.base = base,
                                  !.toInsert = built.toInsert,
                                  !.allocatedQtySum = built.allocatedQtySum,
                                  !.allocatedAmountSum = built.allocatedAmountSum],
                     "alloc_insert")
    /\ UNCHANGED <<lines, bookings, groups>>

\* Line 390, then the remainder's new quantity and amount (394-395); the
\* store takes the ids of the new rows from fresh.
AllocInsertFrom(c, fresh) ==
    /\ pc[c] = "alloc_insert"
    /\ LET l == loc[c]
           n == Len(l.toInsert)
           ids == SubSeq(fresh, 1, n)
       IN  /\ Len(fresh) >= n
           /\ lines' = lines \cup {[id |-> ids[k]] @@ l.toInsert[k] : k \in 1..n}
           /\ Goto(c, [l EXCEPT !.created = ids,
                                !.toInsert = <<>>,
                                !.newQty = newRemainderQty(l.base.line_quantity,
                                                           l.allocatedQtySum),
                                !.newAmount = newRemainderAmount(l.base.amount,
                                                                 l.allocatedAmountSum)],
                   "alloc_update")
    /\ UNCHANGED <<bookings, groups>>

AllocInsert(c) == AllocInsertFrom(c, FreshLineIds)

\* Lines 397-411: the update of the remainder, then the loop over created.
AllocUpdate(c) ==
    /\ pc[c] = "alloc_update"
    /\ lines' = updateLine2(loc[c].base.id, "line_quantity", loc[c].newQty,
                            "amount", loc[c].newAmount)
    /\ IF Len(loc[c].created) = 0
       THEN Finish(c, loc[c])
       ELSE EnterSync(c, [loc[c] EXCEPT !.i = 1], loc[c].created[1])
    /\ UNCHANGED <<bookings, groups>>

\* ------------------------------------------------- reportProjectLineRemainder
\* (mutant) the new remainder gets the whole amount of the source row.
amountRemainderWhole(amount, amountPlanned) == amount

\* Line 458: the amount left for the new remainder.
amountRemainder(amount, amountPlanned) == round2(amount - amountPlanned, 1)

reportProjectLineRemainder(c, lineId) ==
    /\ pc[c] = "idle"
    /\ LET l == Begin("report", lineId)
           line == single(lineId)
           lineQty == line.line_quantity
           planned == line.planned_quantity
           amountPlanned == round2(line.amount * planned, lineQty)
       IN  IF line = NoRow THEN Throw(c, l, "not_found")
           ELSE IF isRemainder(line) THEN Finish(c, l)
           ELSE IF ~(lineQty > 0) THEN Throw(c, l, "invalid_quantity")
           ELSE IF ~(planned > 0 /\ planned < lineQty) THEN Throw(c, l, "nothing_to_split")
           ELSE Goto(c, [l EXCEPT !.base = line,
                                  !.amountPlanned = amountPlanned,
                                  !.newQty = round2(lineQty - planned, 1),
                                  !.newAmount = amountRemainder(line.amount,
                                                                amountPlanned)],
                     "report_update")
    /\ UNCHANGED <<lines, bookings, groups>>

ReportUpdate(c) ==
    /\ pc[c] = "report_update"
    /\ lines' = updateLine2(loc[c].lineId, "line_quantity", loc[c].base.planned_quantity,
                            "amount", loc[c].amountPlanned)
    /\ Goto(c, loc[c], "report_insert")
    /\ UNCHANGED <<bookings, groups>>

ReportInsert(c) ==
    /\ pc[c] = "report_insert"
    /\ Len(FreshLineIds) >= 1
    /\ LET line == loc[c].base
           row == [id |-> FreshLineIds[1],
                   project_id |-> line.project_id,
                   group_id |-> line.group_id,
                   sold_total |-> line.sold_total,
                   line_quantity |-> loc[c].newQty,
                   amount |-> loc[c].newAmount,
                   consultant_id |-> NULL,
                   planned_start_date |-> NULL,
                   planned_end_date |-> NULL,
                   planned_quantity |-> 0,
                   realized_quantity |-> 0,
                   booking_id |-> NULL]
       IN  lines' = lines \cup {row}
    /\ EnterSync(c, loc[c], loc[c].lineId)
    /\ UNCHANGED <<bookings, groups>>

\* ---------------------------------------------------------- deleteProjectLine
\* The remainder of a group as deleteProjectLine looks it up (maybeSingle):
\* the rows the filter matches.
remainderQuery(gid) ==
    {r \in lines : r.group_id = gid /\ r.consultant_id = NULL
                   /\ r.planned_start_date = NULL /\ r.planned_end_date = NULL
                   /\ r.planned_quantity = 0}

\* (mutant) the quantity of the deleted row is not given back.
creditedQtyLost(remainderQty, qtyBack) == remainderQty

\* Lines 572-573: what the remainder gets back.
creditedQty(remainderQty, qtyBack) == round2(remainderQty + qtyBack, 1)

\* (mutant) the amount of the deleted row is not given back.
creditedAmountLost(remainderAmount, amountBack) == remainderAmount

creditedAmount(remainderAmount, amountBack) == round2(remainderAmount + amountBack, 1)

\* Line 531 on, once the booking of the row is out of the way.
DeleteBranch(c, l) ==
    IF isRemainder(l.base)
    THEN Goto(c, l, "delete_group_select")
    ELSE Goto(c, l, "delete_remainder_select")

deleteProjectLine(c, id) ==
    /\ pc[c] = "idle"
    /\ LET line == single(id)
           l == [Begin("delete", id) EXCEPT !.base = line]
       IN  IF line = NoRow THEN Throw(c, l, "not_found")
           ELSE IF line.booking_id # NULL THEN Goto(c, l, "delete_booking")
           ELSE DeleteBranch(c, l)
    /\ UNCHANGED <<lines, bookings, groups>>

\* (mutant) the booking of the deleted row is left in place.
DeleteBookingKept(c) ==
    /\ pc[c] = "delete_booking"
    /\ DeleteBranch(c, loc[c])
    /\ UNCHANGED <<lines, bookings, groups>>

DeleteBooking(c) ==
    /\ pc[c] = "delete_booking"
    /\ bookings' = {b \in bookings : b.id # loc[c].base.booking_id}
    /\ DeleteBranch(c, loc[c])
    /\ UNCHANGED <<lines, groups>>

DeleteGroupSelect(c) ==
    /\ pc[c] = "delete_group_select"
    /\ LET gid == loc[c].base.group_id
           groupLines == {r \in lines : r.group_id = gid}
           bookingIds == {r.booking_id : r \in groupLines} \ {NULL}
       IN  IF bookingIds # {}
           THEN Goto(c, [loc[c] EXCEPT !.bookingIds = bookingIds], "delete_group_bookings")
           ELSE Goto(c, loc[c], "delete_group_lines")
    /\ UNCHANGED <<lines, bookings, groups>>

\* (mutant) the bookings of the group's rows are left in place.
DeleteGroupBookingsKept(c) ==
    /\ pc[c] = "delete_group_bookings"
    /\ Goto(c, loc[c], "delete_group_lines")
    /\ UNCHANGED <<lines, bookings, groups>>

DeleteGroupBookings(c) ==
    /\ pc[c] = "delete_group_bookings"
    /\ bookings' = {b \in bookings : b.id \notin loc[c].bookingIds}
    /\ Goto(c, loc[c], "delete_group_lines")
    /\ UNCHANGED <<lines, groups>>

DeleteGroupLines(c) ==
    /\ pc[c] = "delete_group_lines"
    /\ lines' = {r \in lines : r.group_id # loc[c].base.group_id}
    /\ groups' = {g \in groups : g.gid # loc[c].base.group_id}
    /\ Finish(c, loc[c])
    /\ UNCHANGED bookings

\* (mutant) a missing remainder is passed over: the row is deleted uncredited.
DeleteRemainderSelectLenient(c) ==
    /\ pc[c] = "delete_remainder_select"
    /\ LET l == loc[c]
           found == remainderQuery(l.base.group_id)
           rem == CHOOSE r \in found : TRUE
       IN  IF Cardinality(found) # 1
           THEN Goto(c, l, "delete_line")
           ELSE Goto(c, [l EXCEPT !.remId = rem.id,
                                  !.newQty = round2(rem.line_quantity
                                                    + l.base.line_quantity, 1),
                                  !.newAmount = round2(rem.amount + l.base.amount, 1)],
                     "delete_remainder_update")
    /\ UNCHANGED <<lines, bookings, groups>>

DeleteRemainderSelect(c) ==
    /\ pc[c] = "delete_remainder_select"
    /\ LET l == loc[c]
           found == remainderQuery(l.base.group_id)
           rem == CHOOSE r \in found : TRUE
       IN  IF Cardinality(found) # 1
           THEN Throw(c, l, "no_remainder")
           ELSE Goto(c, [l EXCEPT !.remId = rem.id,
                                  !.newQty = creditedQty(rem.line_quantity,
                                                         l.base.line_quantity),
                                  !.newAmount = creditedAmount(rem.amount, l.base.amount)],
                     "delete_remainder_update")
    /\ UNCHANGED <<lines, bookings, groups>>

DeleteRemainderUpdate(c) ==
    /\ pc[c] = "delete_remainder_update"
    /\ lines' = updateLine2(loc[c].remId, "line_quantity", loc[c].newQty,
                            "amount", loc[c].newAmount)
    /\ Goto(c, loc[c], "delete_line")
    /\ UNCHANGED <<bookings, groups>>

\* (mutant) the row deleted is the remainder that was just credited.
DeleteLineRemainder(c) ==
    /\ pc[c] = "delete_line"
    /\ lines' = {r \in lines : r.id # loc[c].remId}
    /\ Finish(c, loc[c])
    /\ UNCHANGED <<bookings, groups>>

DeleteLine(c) ==
    /\ pc[c] = "delete_line"
    /\ lines' = {r \in lines : r.id # loc[c].lineId}
    /\ Finish(c, loc[c])
    /\ UNCHANGED <<bookings, groups>>

\* ---------------------------------------------------------- fetchProjectLines
\* The rows of a project as the listing returns them (one select).
fetchProjectLines(projectId) ==
    {[id |-> r.id,
      projectId |-> r.project_id,
      soldQuantity |-> r.sold_total,
      lineQuantity |-> r.line_quantity,
      amount |-> r.amount,
      consultantId |-> r.consultant_id,
      plannedStartDate |-> r.planned_start_date,
      plannedEndDate |-> r.planned_end_date,
      plannedQuantity |-> r.planned_quantity,
      realizedQuantity |-> r.realized_quantity,
      bookingId |-> r.booking_id,
      groupId |-> IF r.group_id # NULL THEN r.group_id ELSE r.id]
     : r \in {x \in lines : x.project_id = projectId}}

\* ------------------------------------------------------------ specifications
\* What a caller may ask for.
Start(c) ==
    \/ \E p \in Projects, q \in SoldQuantities, a \in Amounts :
           createProjectLine(c, p, [soldQuantity |-> q, amount |-> a])
    \/ \E id \in LineIds, k \in Consultants, days \in DayArrays :
           allocateProjectLineDays(c, id, k, days)
    \/ \E id \in LineIds : deleteProjectLine(c, id)
    \/ \E id \in LineIds : reportProjectLineRemainder(c, id)

\* The storage calls reached from groups that createProjectLine made.
Step(c) ==
    \/ SyncSelect(c)
    \/ SyncInsertBooking(c)
    \/ SyncSetId(c)
    \/ AllocInsert(c)
    \/ AllocUpdate(c)
    \/ DeleteBooking(c)
    \/ DeleteGroupSelect(c)
    \/ DeleteGroupBookings(c)
    \/ DeleteGroupLines(c)
    \/ DeleteRemainderSelect(c)
    \/ DeleteRemainderUpdate(c)
    \/ DeleteLine(c)
    \/ Return(c)

\* Operations run one at a time and no storage call fails.
Next == \E c \in SeqClients : Start(c) \/ Step(c)

Spec == Init /\ [][Next]_vars

\* A storage call in flight returns a failure and the operation calls it
\* again.
StorageFailsRetried(c) ==
    /\ pc[c] \notin {"idle", "done"}
    /\ Goto(c, [loc[c] EXCEPT !.failed = TRUE], pc[c])
    /\ UNCHANGED <<lines, bookings, groups>>

\* A storage call in flight returns a failure: the operation throws it.
StorageFails(c) ==
    /\ pc[c] \notin {"idle", "done"}
    /\ Throw(c, [loc[c] EXCEPT !.failed = TRUE], "storage_error")
    /\ UNCHANGED <<lines, bookings, groups>>

\* The first storage call of an operation returns a failure.
FirstCallFails(c) ==
    /\ pc[c] = "idle"
    /\ \E op \in {"create", "allocate", "delete", "report"} :
           Throw(c, [Begin(op, NULL) EXCEPT !.failed = TRUE], "storage_error")
    /\ UNCHANGED <<lines, bookings, groups>>

\* A group as createProjectLine leaves it, and nothing else in the store.
InitGroup ==
    /\ \E q \in SoldQuantities \ {0}, a \in Amounts :
           /\ lines = {headerRow(1, 1, [soldQuantity |-> q, amount |-> a])}
           /\ groups = {[gid |-> DefaultGroupId(1), soldTotal |-> q, amount |-> a]}
    /\ bookings = {}
    /\ pc = [c \in Clients |-> "idle"]
    /\ loc = [c \in Clients |-> NoLoc]

\* One client's allocation, from its invocation to its last storage call.
Allocate(c, dayArrays) ==
    \/ \E id \in LineIds, k \in Consultants, days \in dayArrays :
           allocateProjectLineDays(c, id, k, days)
    \/ AllocInsert(c)
    \/ AllocUpdate(c)
    \/ SyncSelect(c)
    \/ SyncInsertBooking(c)
    \/ SyncSetId(c)

\* Allocations run one at a time and any storage call may fail.
NextFail ==
    \E c \in SeqClients :
        Allocate(c, DayArrays) \/ Return(c) \/ StorageFails(c) \/ FirstCallFails(c)

SpecFail == InitGroup /\ [][NextFail]_vars

\* One allocation by each client, interleaved at their storage calls.
NextConc == \E c \in Clients : Allocate(c, ConcDayArrays)

SpecConc == InitGroup /\ [][NextConc]_vars

\* What the rows of the store add up to in column f.
RECURSIVE StoreTotal(_, _)
StoreTotal(rows, f) ==
    IF rows = {} THEN 0
    ELSE LET r == CHOOSE x \in rows : TRUE
         IN  r[f] + StoreTotal(rows \ {r}, f)

\* What a caller of updateProjectLine may submit: the planning cleared, or a
\* resource with or without planned dates and a part or all of the quantity
\* planned.
EditInputs ==
    {[soldQuantity |-> 300, lineQuantity |-> NULL, amount |-> 100,
      consultantId |-> NULL, plannedStartDate |-> NULL, plannedEndDate |-> NULL,
      plannedQuantity |-> 0, realizedQuantity |-> 0]}
    \cup
    {[soldQuantity |-> 300, lineQuantity |-> NULL, amount |-> 100,
      consultantId |-> 1, plannedStartDate |-> d[1], plannedEndDate |-> d[2],
      plannedQuantity |-> q, realizedQuantity |-> 0]
     : d \in {<<NULL, NULL>>, <<1, 2>>}, q \in {200, 300}}

\* An edit that keeps the totals of the store within the bounds.
EditWithinBounds(c) ==
    \E id \in LineIds, input \in EditInputs :
        /\ updateProjectLine(c, id, input)
        /\ StoreTotal(lines', "line_quantity") <= MaxQuantity
        /\ StoreTotal(lines', "amount") <= MaxAmount

\* Operations on one group run one at a time, its rows are edited as well,
\* and syncBookingForLine is also called on its own.
NextEdit ==
    \E c \in SeqClients :
        \/ EditWithinBounds(c)
        \/ \E id \in LineIds : deleteProjectLine(c, id)
        \/ \E id \in LineIds : reportProjectLineRemainder(c, id)
        \/ \E id \in LineIds : syncBookingForLine(c, id)
        \/ syncBookingForLineAgain(c)
        \/ SyncSelect(c)
        \/ SyncDeleteBooking(c)
        \/ SyncClearId(c)
        \/ SyncUpdateBooking(c)
        \/ SyncInsertBooking(c)
        \/ SyncSetId(c)
        \/ ReportUpdate(c)
        \/ ReportInsert(c)
        \/ DeleteBooking(c)
        \/ DeleteGroupSelect(c)
        \/ DeleteGroupBookings(c)
        \/ DeleteGroupLines(c)
        \/ DeleteRemainderSelect(c)
        \/ DeleteRemainderUpdate(c)
        \/ DeleteLine(c)
        \/ Return(c)

SpecEdit == InitGroup /\ [][NextEdit]_vars

\* The caller goes on to its next operation unless a storage call failed.
ReturnUnlessFailed(c) ==
    /\ ~loc[c].failed
    /\ Return(c)

\* Edits, deletes, repairs and syncs on one group, one at a time, where any
\* storage call may fail; the run is followed up to the first failure.
NextEditFail ==
    \E c \in SeqClients :
        \/ EditWithinBounds(c)
        \/ \E id \in LineIds : deleteProjectLine(c, id)
        \/ \E id \in LineIds : reportProjectLineRemainder(c, id)
        \/ \E id \in LineIds : syncBookingForLine(c, id)
        \/ syncBookingForLineAgain(c)
        \/ SyncSelect(c)
        \/ SyncDeleteBooking(c)
        \/ SyncClearId(c)
        \/ SyncUpdateBooking(c)
        \/ SyncInsertBooking(c)
        \/ SyncSetId(c)
        \/ ReportUpdate(c)
        \/ ReportInsert(c)
        \/ DeleteBooking(c)
        \/ DeleteGroupSelect(c)
        \/ DeleteGroupBookings(c)
        \/ DeleteGroupLines(c)
        \/ DeleteRemainderSelect(c)
        \/ DeleteRemainderUpdate(c)
        \/ DeleteLine(c)
        \/ ReturnUnlessFailed(c)
        \/ StorageFails(c)
        \/ FirstCallFails(c)

SpecEditFail == InitGroup /\ [][NextEditFail]_vars

\* What the line form submits (ManageProjectLineModal): a sold quantity and
\* an amount, the planning cleared, no lineQuantity.
FormInputs ==
    {[soldQuantity |-> q, lineQuantity |-> NULL, amount |-> a,
      consultantId |-> NULL, plannedStartDate |-> NULL, plannedEndDate |-> NULL,
      plannedQuantity |-> 0, realizedQuantity |-> 0]
     : q \in SoldQuantities \ {0}, a \in Amounts}

\* The line form is saved on a row (ProjectDetailModal.handleUpdateLine).
EditByForm(c) ==
    \E id \in LineIds, input \in FormInputs : updateProjectLine(c, id, input)

\* Allocations and saves of the line form on one group, one at a time.
NextForm ==
    \E c \in SeqClients :
        \/ Allocate(c, ConcDayArrays)
        \/ EditByForm(c)
        \/ SyncDeleteBooking(c)
        \/ SyncClearId(c)
        \/ Return(c)

SpecForm == InitGroup /\ [][NextForm]_vars

\* One allocation out of a group of a few cents, over a week in which four
\* separate days fit: the store has room for the remainder and four rows.
CentLineIds == 1..MaxCentLines
CentBookingIds == 1..MaxCentBookings
CentQuantities == {250, 400}
CentAmounts == {1, 2, 3}
CentDayArrays ==
    {SortedSeq(S) : S \in {T \in SUBSET (1..MaxCentDay) : Cardinality(T) <= MaxCentSel}}

InitCents ==
    /\ \E q \in CentQuantities, a \in CentAmounts :
           /\ lines = {headerRow(1, 1, [soldQuantity |-> q, amount |-> a])}
           /\ groups = {[gid |-> DefaultGroupId(1), soldTotal |-> q, amount |-> a]}
    /\ bookings = {}
    /\ pc = [c \in Clients |-> "idle"]
    /\ loc = [c \in Clients |-> NoLoc]

AllocInsertCents(c) ==
    AllocInsertFrom(c, SortedSeq(CentLineIds \ UsedLineIds))

SyncInsertBookingCents(c) ==
    SyncInsertBookingFrom(c, SortedSeq(CentBookingIds \ UsedBookingIds))

NextCents ==
    \E c \in SeqClients :
        \/ \E id \in CentLineIds, k \in Consultants, days \in CentDayArrays :
               allocateProjectLineDays(c, id, k, days)
        \/ AllocInsertCents(c)
        \/ AllocUpdate(c)
        \/ SyncSelect(c)
        \/ SyncInsertBookingCents(c)
        \/ SyncSetId(c)

SpecCents == InitCents /\ [][NextCents]_vars

\* groupIntoConsecutiveRanges on its own: client 1 holds an array of days and
\* calls it.
InitRanges ==
    /\ lines = {}
    /\ bookings = {}
    /\ groups = {}
    /\ pc = [c \in Clients |-> IF c = 1 THEN "ranges_call" ELSE "idle"]
    /\ \E daysIso \in RangeDayArrays :
           loc = [c \in Clients |->
                     IF c = 1 THEN [NoLoc EXCEPT !.op = "ranges", !.daysIso = daysIso]
                     ELSE NoLoc]

GroupDays(c) ==
    /\ pc[c] = "ranges_call"
    /\ Finish(c, [loc[c] EXCEPT !.ranges = groupIntoConsecutiveRanges(loc[c].daysIso)])
    /\ UNCHANGED <<lines, bookings, groups>>

NextRanges == \E c \in SeqClients : GroupDays(c)

SpecRanges == InitRanges /\ [][NextRanges]_vars

\* --------------------------------------------------- vocabulary of the claims
\* The remainder predicate of the data model: no resource, no planned dates,
\* nothing planned.
RemainderPredicate(r) ==
    r.consultant_id = NULL /\ r.planned_start_date = NULL
    /\ r.planned_end_date = NULL /\ r.planned_quantity = 0

FullySpecified(r) ==
    r.consultant_id # NULL /\ r.planned_start_date # NULL
    /\ r.planned_end_date # NULL /\ r.planned_quantity > 0

GroupIds == {r.group_id : r \in lines}

GroupRows(gid) == {r \in lines : r.group_id = gid}

RECURSIVE SumOf(_, _)
SumOf(rows, f) ==
    IF rows = {} THEN 0
    ELSE LET r == CHOOSE x \in rows : TRUE
         IN  r[f] + SumOf(rows \ {r}, f)

\* No operation is in flight.
Quiescent == \A c \in Clients : pc[c] \in {"idle", "done"}

\* Client c has an operation op that has returned normally.
Returned(c, op) == pc[c] = "done" /\ loc[c].op = op /\ loc[c].result = "ok"

\* The target row of c's call as the store held it when the call began.
HadTarget(c) == \E r \in loc[c].pre.lines : r.id = loc[c].call.lineId

PreTarget(c) == CHOOSE r \in loc[c].pre.lines : r.id = loc[c].call.lineId

\* The rows c's operation added to the store.
CreatedRows(c) == {r \in lines : \A p \in loc[c].pre.lines : p.id # r.id}

\* Half-up rounding of num/den (den > 0) to a whole number.
HalfUp(num, den) ==
    IF 2 * (num % den) >= den THEN (num \div den) + 1 ELSE num \div den

\* The maximal runs of consecutive days of a set of days.
MaximalRuns(S) ==
    {run \in S \X S :
        /\ run[1] <= run[2]
        /\ \A d \in run[1]..run[2] : d \in S
        /\ (run[1] - 1) \notin S
        /\ (run[2] + 1) \notin S}

\* ------------------------------------------------------------------ claims
\* C1 (quantity conservation): whenever no operation is in flight, every
\* group's rows carry the sold total the group was created with, and their
\* lineQuantity adds up to it.
C1_QuantityConservation ==
    Quiescent =>
        /\ \A gid \in GroupIds : \E g \in groups : g.gid = gid
        /\ \A g \in groups :
              /\ \A r \in GroupRows(g.gid) : r.sold_total = g.soldTotal
              /\ SumOf(GroupRows(g.gid), "line_quantity") = g.soldTotal

\* An allocation row has been deleted from a group that still has another.
C1_Witness ==
    /\ Returned(1, "delete")
    /\ loc[1].base.consultant_id # NULL
    /\ \E r \in lines : r.group_id = loc[1].base.group_id /\ r.consultant_id # NULL

\* C2 (amount conservation): whenever no operation is in flight, the amounts
\* of a group's rows add up, to within one cent, to the amount the group was
\* created with.
C2_AmountConservation ==
    Quiescent =>
        \A g \in groups :
            LET total == SumOf(GroupRows(g.gid), "amount")
            IN  total - g.amount <= 1 /\ g.amount - total <= 1

\* An allocation row has been deleted while the group holds an amount that
\* only rounding can produce.
C2_Witness ==
    /\ Returned(1, "delete")
    /\ loc[1].base.consultant_id # NULL
    /\ \E r \in lines : r.group_id = loc[1].base.group_id /\ r.amount \notin {0, 100}

\* C3 (single remainder): whenever no operation is in flight every group has
\* exactly one row satisfying the remainder predicate; and an allocate that
\* took all the remainder had left keeps the remainder row, at lineQuantity 0.
C3_SingleRemainder ==
    /\ Quiescent =>
          \A gid \in GroupIds :
              Cardinality({r \in GroupRows(gid) : RemainderPredicate(r)}) = 1
    /\ \A c \in Clients :
          (Returned(c, "allocate")
           /\ loc[c].call.count * Scale = PreTarget(c).line_quantity)
          => \E r \in lines : /\ r.id = loc[c].call.lineId
                              /\ RemainderPredicate(r)
                              /\ r.line_quantity = 0

\* An allocate of exactly what was left has returned.
C3_Witness ==
    /\ Returned(1, "allocate")
    /\ loc[1].call.count * Scale = PreTarget(1).line_quantity

\* C4 (proration exactness): the amounts of the rows a successful allocate
\* created add up to round2(A * q / Q), A and Q being the remainder's amount
\* and lineQuantity before the call and q the number of selected days.
C4_ProrationExactness ==
    \A c \in Clients :
        Returned(c, "allocate") =>
            SumOf(CreatedRows(c), "amount")
                = HalfUp(PreTarget(c).amount * loc[c].call.count * Scale,
                         PreTarget(c).line_quantity)

\* C5 (allocate is all-or-nothing under storage failure): once allocate has
\* returned, either it returned normally and is fully applied (its rows are
\* inserted and each has its booking, the remainder is decremented), or the
\* rows and the bookings are exactly as they were before the call.
FullyApplied(c) ==
    /\ CreatedRows(c) # {}
    /\ \A r \in CreatedRows(c) : \E b \in bookings : b.id = r.booking_id
    /\ \E r \in lines :
          /\ r.id = loc[c].call.lineId
          /\ r.line_quantity
                = PreTarget(c).line_quantity - SumOf(CreatedRows(c), "line_quantity")

C5_AllocateAllOrNothing ==
    \A c \in Clients :
        (pc[c] = "done" /\ loc[c].op = "allocate")
        => IF loc[c].result = "ok"
           THEN FullyApplied(c)
           ELSE lines = loc[c].pre.lines /\ bookings = loc[c].pre.bookings

\* C6 (no mid-operation state is observable): while an allocate is in
\* flight, what fetchProjectLines returns has, in every group, lineQuantity
\* adding up to the sold total, and a bookingId on every fully specified
\* allocation row.
AllocateInFlight == \E c \in Clients : loc[c].op = "allocate" /\ pc[c] # "done"

C6_NoMidOperationState ==
    AllocateInFlight =>
        \A p \in Projects :
            LET snapshot == fetchProjectLines(p)
            IN  \A x \in snapshot :
                    /\ SumOf({y \in snapshot : y.groupId = x.groupId}, "lineQuantity")
                          = x.soldQuantity
                    /\ (x.consultantId # NULL /\ x.plannedStartDate # NULL
                        /\ x.plannedEndDate # NULL /\ x.plannedQuantity > 0)
                       => x.bookingId # NULL

\* C7 (no over-allocation under concurrency): in every state, in every
\* group, the allocation rows' lineQuantity adds up to at most the sold
\* total and no remainder row has a negative lineQuantity.
C7_NoOverAllocation ==
    \A g \in groups :
        LET rows == GroupRows(g.gid)
        IN  /\ SumOf({r \in rows : ~RemainderPredicate(r)}, "line_quantity") <= g.soldTotal
            /\ \A r \in rows : RemainderPredicate(r) => r.line_quantity >= 0

\* C8 (precondition failures mutate nothing): an allocate called with no day,
\* with more distinct days than the remainder has left, on a row that does
\* not exist or on a row that is not the remainder, has thrown and the rows
\* and bookings are as they were before the call.
AllocPreconditionFails(c) ==
    \/ loc[c].call.count = 0
    \/ ~HadTarget(c)
    \/ ~RemainderPredicate(PreTarget(c))
    \/ loc[c].call.count * Scale > PreTarget(c).line_quantity

C8_PreconditionFailuresMutateNothing ==
    \A c \in Clients :
        (loc[c].op = "allocate" /\ AllocPreconditionFails(c))
        => /\ pc[c] = "done"
           /\ loc[c].result # "ok"
           /\ lines = loc[c].pre.lines
           /\ bookings = loc[c].pre.bookings

\* More days than a remainder with something left can cover were refused.
C8_Witness ==
    /\ pc[1] = "done" /\ loc[1].op = "allocate" /\ loc[1].result = "exceeds"
    /\ HadTarget(1) /\ RemainderPredicate(PreTarget(1))
    /\ PreTarget(1).line_quantity > 0
    /\ loc[1].call.count * Scale > PreTarget(1).line_quantity

\* C9 (rows created by allocate): a successful allocate has created exactly
\* one row per maximal run of the distinct selected days, each in the group
\* of the remainder, for the given resource, planned from the first to the
\* last day of its run, with lineQuantity = plannedQuantity = the length of
\* the run and nothing realized.
C9_RowsCreated ==
    \A c \in Clients :
        Returned(c, "allocate") =>
            LET runs == MaximalRuns(loc[c].call.days)
                new == CreatedRows(c)
            IN  /\ Cardinality(new) = Cardinality(runs)
                /\ \A run \in runs :
                      \E r \in new : /\ r.planned_start_date = run[1]
                                     /\ r.planned_end_date = run[2]
                /\ \A r \in new :
                      /\ <<r.planned_start_date, r.planned_end_date>> \in runs
                      /\ r.group_id = PreTarget(c).group_id
                      /\ r.consultant_id = loc[c].call.consultantId
                      /\ r.line_quantity
                            = (r.planned_end_date - r.planned_start_date + 1) * Scale
                      /\ r.planned_quantity = r.line_quantity
                      /\ r.realized_quantity = 0

\* A selection with a gap has been allocated: two runs, two rows.
C9_Witness ==
    /\ Returned(1, "allocate")
    /\ Cardinality(MaximalRuns(loc[1].call.days)) = 2
    /\ Cardinality(CreatedRows(1)) = 2

\* C10 (remainder decrement): after a successful allocate the remainder row
\* is the row it was before the call with lineQuantity and amount lowered by
\* the sums over the rows the call created, and nothing else changed.
C10_RemainderDecrement ==
    \A c \in Clients :
        Returned(c, "allocate") =>
            LET old == PreTarget(c)
                new == CreatedRows(c)
            IN  [old EXCEPT
                    !.line_quantity = old.line_quantity - SumOf(new, "line_quantity"),
                    !.amount = old.amount - SumOf(new, "amount")] \in lines

\* A successful allocate that left the remainder something to plan.
C10_Witness ==
    /\ Returned(1, "allocate")
    /\ PreTarget(1).amount > 0
    /\ \E r \in lines : r.id = loc[1].call.lineId /\ r.line_quantity > 0

\* The distinct days of an array given to groupIntoConsecutiveRanges.
DaySet(daysIso) == {daysIso[k] : k \in DOMAIN daysIso} \ {NULL}

\* The days a range covers, from its start to its end.
Covered(r) == r.start..r.end

\* C11 (compaction correctness): the ranges groupIntoConsecutiveRanges returns
\* are pairwise disjoint, cover exactly the distinct days given (each day in
\* exactly one range), and each range's qty is (end - start) + 1 and the
\* length of its days list; no day gives no range.
C11_CompactionCorrect ==
    \A c \in Clients :
        Returned(c, "ranges") =>
            LET out == loc[c].ranges
                given == DaySet(loc[c].daysIso)
            IN  /\ \A i, j \in DOMAIN out : i # j => Covered(out[i]) \cap Covered(out[j]) = {}
                /\ UNION {Covered(out[i]) : i \in DOMAIN out} = given
                /\ \A d \in given : Cardinality({i \in DOMAIN out : d \in Covered(out[i])}) = 1
                /\ \A i \in DOMAIN out :
                      /\ out[i].qty = (out[i].end - out[i].start) + 1
                      /\ out[i].qty = Len(out[i].days)
                      /\ {out[i].days[k] : k \in DOMAIN out[i].days} = Covered(out[i])
                /\ (given = {} => out = <<>>)

\* Unsorted days with a duplicate and a gap were given and came back as
\* two ranges.
C11_Witness ==
    /\ Returned(1, "ranges")
    /\ Len(loc[1].daysIso) > Cardinality(DaySet(loc[1].daysIso))
    /\ loc[1].daysIso # SortedSeq(DaySet(loc[1].daysIso))
    /\ Len(loc[1].ranges) = 2
    /\ \E i \in DOMAIN loc[1].ranges : loc[1].ranges[i].qty >= 2

\* C12 (compaction minimality and order-independence): the ranges returned
\* are the maximal runs of the distinct days, in ascending order with a gap
\* of at least two days from one range's end to the next one's start, and
\* they are what the sorted distinct days alone give: the order of the input
\* and its duplicates do not matter.
C12_MinimalAndOrderIndependent ==
    \A c \in Clients :
        Returned(c, "ranges") =>
            LET out == loc[c].ranges
                given == DaySet(loc[c].daysIso)
            IN  /\ {<<out[i].start, out[i].end>> : i \in DOMAIN out} = MaximalRuns(given)
                /\ Len(out) = Cardinality(MaximalRuns(given))
                /\ \A i \in DOMAIN out :
                      (i + 1) \in DOMAIN out => out[i + 1].start >= out[i].end + 2
                /\ out = groupIntoConsecutiveRanges(SortedSeq(given))

\* Days given in descending order, with a gap, came back in ascending ranges.
C12_Witness ==
    /\ Returned(1, "ranges")
    /\ Len(loc[1].daysIso) >= 3
    /\ \A k \in DOMAIN loc[1].daysIso :
          /\ loc[1].daysIso[k] # NULL
          /\ (k + 1) \in DOMAIN loc[1].daysIso => loc[1].daysIso[k] > loc[1].daysIso[k + 1]
    /\ Len(loc[1].ranges) >= 2

\* C13 (booking 1:1): whenever no operation is in flight, a row has a
\* bookingId exactly when it is a fully specified allocation, every bookingId
\* is the id of an existing booking, and no two rows share a bookingId.
C13_BookingOneToOne ==
    Quiescent =>
        /\ \A r \in lines :
              /\ (r.booking_id # NULL) <=> FullySpecified(r)
              /\ r.booking_id # NULL => \E b \in bookings : b.id = r.booking_id
        /\ \A r1, r2 \in lines :
              (r1.booking_id # NULL /\ r1.booking_id = r2.booking_id) => r1 = r2

\* Two allocation rows, each with its own booking, next to their remainder.
C13_Witness ==
    /\ Quiescent
    /\ Cardinality({r.booking_id : r \in {x \in lines : FullySpecified(x)}}) = 2
    /\ \E r \in lines : RemainderPredicate(r) /\ r.booking_id = NULL

\* C14 (idempotent sync): a second syncBookingForLine on a row that has just
\* been synced and has not changed since leaves every row (its bookingId
\* included) and every booking as the first call left them.
C14_IdempotentSync ==
    \A c \in Clients :
        Returned(c, "sync_again") =>
            /\ lines = loc[c].pre.lines
            /\ bookings = loc[c].pre.bookings

\* The second call found a fully specified row and the booking it has.
C14_Witness ==
    /\ Returned(1, "sync_again")
    /\ hasAll(loc[1].syncData)
    /\ \E b \in bookings : b.id = loc[1].syncData.booking_id

\* The row a returned syncBookingForLine was called on, now and before.
SyncedRow(c) == CHOOSE r \in lines : r.id = loc[c].syncLine

SyncedRowBefore(c) == CHOOSE r \in loc[c].pre.lines : r.id = loc[c].syncLine

\* C15 (sync postcondition): after a successful syncBookingForLine, a fully
\* specified row references an existing booking with the row's resource and
\* dates, the booking it already had if it had one, with no booking added
\* then; any other row has no bookingId and the booking it referenced is gone.
C15_SyncPostcondition ==
    \A c \in Clients :
        (Returned(c, "sync") \/ Returned(c, "sync_again")) =>
            LET row == SyncedRow(c)
                old == SyncedRowBefore(c)
            IN  IF FullySpecified(row)
                THEN /\ \E b \in bookings :
                           /\ b.id = row.booking_id
                           /\ b.consultant_id = row.consultant_id
                           /\ b.start_date = row.planned_start_date
                           /\ b.end_date = row.planned_end_date
                     /\ old.booking_id # NULL =>
                           /\ row.booking_id = old.booking_id
                           /\ Cardinality(bookings) <= Cardinality(loc[c].pre.bookings)
                ELSE /\ row.booking_id = NULL
                     /\ old.booking_id # NULL =>
                           ~\E b \in bookings : b.id = old.booking_id

\* Client c has deleted, and nothing else, every row its last allocate created.
TripDone(c) ==
    /\ Returned(c, "delete")
    /\ loc[c].trip.created # {}
    /\ loc[c].trip.left = {}

\* C16 (allocate/delete round trip): once every row a successful allocate
\* created has been deleted, in any order and with nothing else in between,
\* the remainder has the lineQuantity and amount it had before the allocate,
\* the created rows are gone and so are their bookings.
C16_AllocateDeleteRoundTrip ==
    \A c \in Clients :
        TripDone(c) =>
            /\ \E r \in lines :
                  /\ r.id = loc[c].trip.rem.id
                  /\ r.line_quantity = loc[c].trip.rem.line_quantity
                  /\ r.amount = loc[c].trip.rem.amount
            /\ \A id \in loc[c].trip.created :
                  /\ ~\E r \in lines : r.id = id
                  /\ ~\E b \in bookings : b.notes.line = id

\* Both rows of a two-range allocation from a remainder with an amount have
\* been deleted.
C16_Witness ==
    /\ TripDone(1)
    /\ Cardinality(loc[1].trip.created) = 2
    /\ loc[1].trip.rem.amount > 0

\* The rows that were in the group of c's target row when c's call began.
PreGroupRows(c) ==
    {r \in loc[c].pre.lines : r.group_id = PreTarget(c).group_id}

\* C17 (remainder deletion cascades): after a successful deleteProjectLine on
\* a row that classifies as the remainder, every row of its group and every
\* booking a row of the group referenced is gone, and all other rows and
\* bookings are as they were.
C17_RemainderDeletionCascades ==
    \A c \in Clients :
        (Returned(c, "delete") /\ HadTarget(c) /\ RemainderPredicate(PreTarget(c))) =>
            /\ lines = loc[c].pre.lines \ PreGroupRows(c)
            /\ bookings = {b \in loc[c].pre.bookings :
                               b.id \notin {r.booking_id : r \in PreGroupRows(c)}}

\* The remainder of a group with a booked allocation row was deleted while
\* another group exists.
C17_Witness ==
    /\ Returned(1, "delete") /\ HadTarget(1) /\ RemainderPredicate(PreTarget(1))
    /\ \E r \in PreGroupRows(1) : r.booking_id # NULL
    /\ lines # {}

\* Client c's deleteProjectLine was called on a row that is not a remainder,
\* in a group that had no row satisfying the remainder predicate.
DeleteWithoutRemainder(c) ==
    /\ loc[c].op = "delete"
    /\ HadTarget(c)
    /\ ~RemainderPredicate(PreTarget(c))
    /\ \A r \in PreGroupRows(c) : ~RemainderPredicate(r)

\* C18 (missing remainder is surfaced on delete): deleteProjectLine on an
\* allocation row whose group has no remainder returns an error, and at no
\* point deletes the row or changes the quantity or amount of any row.
C18_MissingRemainderSurfaced ==
    \A c \in Clients :
        DeleteWithoutRemainder(c) =>
            /\ lines = loc[c].pre.lines
            /\ pc[c] = "done" => loc[c].result # "ok"

\* The delete of a booked, fully specified row was refused for want of a
\* remainder.
C18_Witness ==
    /\ DeleteWithoutRemainder(1)
    /\ pc[1] = "done"
    /\ loc[1].result = "no_remainder"
    /\ FullySpecified(PreTarget(1))
    /\ PreTarget(1).booking_id # NULL

\* Client c's reportProjectLineRemainder was called on a row planned for a
\* part of its quantity, in a group that had no remainder.
RepairCandidate(c) ==
    /\ loc[c].op = "report"
    /\ HadTarget(c)
    /\ PreTarget(c).planned_quantity > 0
    /\ PreTarget(c).planned_quantity < PreTarget(c).line_quantity
    /\ \A r \in PreGroupRows(c) : ~RemainderPredicate(r)

\* C19 (repair split): a successful reportProjectLineRemainder on such a row
\* leaves it with lineQuantity = plannedQuantity, amount = round2(a * planned
\* / lineQuantity) and its planning fields as they were, and inserts exactly
\* one row, in the same group, unplanned and unbooked, with the rest of the
\* quantity and of the amount; no other row changes, and the group's
\* lineQuantity and amount totals are what they were.
C19_RepairSplit ==
    \A c \in Clients :
        (Returned(c, "report") /\ RepairCandidate(c)) =>
            LET old == PreTarget(c)
                kept == HalfUp(old.amount * old.planned_quantity, old.line_quantity)
                src == CHOOSE r \in lines : r.id = old.id
                now == {r \in lines : r.group_id = old.group_id}
            IN  /\ \E r \in lines : r.id = old.id
                /\ src = [old EXCEPT !.line_quantity = old.planned_quantity,
                                     !.amount = kept,
                                     !.booking_id = src.booking_id]
                /\ \E n \in CreatedRows(c) :
                      /\ CreatedRows(c) = {n}
                      /\ n.group_id = old.group_id
                      /\ n.line_quantity = old.line_quantity - old.planned_quantity
                      /\ n.amount = old.amount - kept
                      /\ RemainderPredicate(n)
                      /\ n.booking_id = NULL
                      /\ lines = (loc[c].pre.lines \ {old}) \cup {src, n}
                /\ SumOf(now, "line_quantity") = SumOf(PreGroupRows(c), "line_quantity")
                /\ SumOf(now, "amount") = SumOf(PreGroupRows(c), "amount")

\* A booked row planned for two of its three days has been split.
C19_Witness ==
    /\ Returned(1, "report") /\ RepairCandidate(1)
    /\ FullySpecified(PreTarget(1))
    /\ PreTarget(1).booking_id # NULL
    /\ PreTarget(1).amount > 0

\* C20 (repair rejection): reportProjectLineRemainder on a row that already
\* classifies as a remainder, or whose plannedQuantity is not strictly
\* between 0 and its lineQuantity, returns an error and changes no row and
\* no booking.
C20_RepairRejection ==
    \A c \in Clients :
        (pc[c] = "done" /\ loc[c].op = "report" /\ HadTarget(c)
         /\ (\/ RemainderPredicate(PreTarget(c))
             \/ ~(/\ PreTarget(c).planned_quantity > 0
                  /\ PreTarget(c).planned_quantity < PreTarget(c).line_quantity)))
        => /\ loc[c].result # "ok"
           /\ lines = loc[c].pre.lines
           /\ bookings = loc[c].pre.bookings

\* C21 (delete and repair are all-or-nothing under storage failure): once
\* deleteProjectLine or reportProjectLineRemainder has returned a storage
\* failure, the rows and the bookings are exactly as they were before the
\* call.
C21_DeleteRepairAllOrNothing ==
    \A c \in Clients :
        (pc[c] = "done" /\ loc[c].op \in {"delete", "report"}
         /\ loc[c].result = "storage_error")
        => /\ lines = loc[c].pre.lines
           /\ bookings = loc[c].pre.bookings

\* C22 (allocation row shape): when no operation is in flight, every row
\* that is not a remainder has lineQuantity equal to plannedQuantity, both
\* positive.
C22_AllocationRowShape ==
    Quiescent =>
        \A r \in lines :
            ~RemainderPredicate(r) =>
                /\ r.line_quantity = r.planned_quantity
                /\ r.planned_quantity > 0

\* A delete has returned and an allocation row of two days is still there
\* beside a remainder.
C22_Witness ==
    /\ \E c \in Clients : Returned(c, "delete")
    /\ \E r \in lines : ~RemainderPredicate(r) /\ r.planned_quantity = 2 * Scale
    /\ \E r \in lines : RemainderPredicate(r)

\* The rows c's allocation created, in the order of their start dates.
CreatedInOrder(c) ==
    LET rows == CreatedRows(c)
        starts == SortedSeq({r.planned_start_date : r \in rows})
    IN  [k \in 1..Len(starts) |->
            CHOOSE r \in rows : r.planned_start_date = starts[k]]

RECURSIVE SumAmounts(_, _)
SumAmounts(rows, n) ==
    IF n = 0 THEN 0 ELSE rows[n].amount + SumAmounts(rows, n - 1)

\* C24 (per-range proration formula): after a successful allocate against a
\* remainder with amount A and lineQuantity Q, every created row but the one
\* of the last range has amount A * q / Q rounded half up to the cent, q
\* being its lineQuantity, and the row of the last range has A minus the sum
\* of the amounts of the rows before it.
C24_PerRangeProration ==
    \A c \in Clients :
        (Returned(c, "allocate") /\ HadTarget(c)) =>
            LET A == PreTarget(c).amount
                Q == PreTarget(c).line_quantity
                rows == CreatedInOrder(c)
                n == Len(rows)
            IN  /\ n = Cardinality(CreatedRows(c))
                /\ n >= 1
                /\ \A k \in 1..(n - 1) :
                       rows[k].amount = HalfUp(A * rows[k].line_quantity, Q)
                /\ rows[n].amount = A - SumAmounts(rows, n - 1)

\* An allocation of three separate days out of a remainder of 4 days and
\* 0.02: the first two ranges have 0.005 rounded up to 0.01, the last has
\* nothing.
C24_Witness ==
    \E c \in Clients :
        /\ Returned(c, "allocate") /\ HadTarget(c)
        /\ PreTarget(c).line_quantity = 400
        /\ PreTarget(c).amount = 2
        /\ Cardinality(CreatedRows(c)) = 3
        /\ Cardinality({r \in CreatedRows(c) : r.amount = 1}) = 2
        /\ \E r \in CreatedRows(c) : r.amount = 0

\* C25 (non-negative amounts): out of a group created with amount >= 0,
\* after a successful allocate every row has amount >= 0.
C25_NonNegativeAmounts ==
    (\E c \in Clients : Returned(c, "allocate")) =>
        \A r \in lines : r.amount >= 0

C26_LineEditPreservesGroup ==
    \A c \in Clients :
        (Returned(c, "update") /\ HadTarget(c)) =>
            LET rows == GroupRows(PreTarget(c).group_id)
            IN  /\ Cardinality({r \in rows : RemainderPredicate(r)}) = 1
                /\ \A r \in rows : SumOf(rows, "line_quantity") = r.sold_total
                /\ \A r1, r2 \in rows : r1.sold_total = r2.sold_total

\* C27 (repair never duplicates the remainder): after a successful
\* reportProjectLineRemainder on a row with 0 < plannedQuantity <
\* lineQuantity, whether or not its group already had a remainder, the group
\* has exactly one remainder.
C27_RepairKeepsOneRemainder ==
    \A c \in Clients :
        (/\ Returned(c, "report")
         /\ HadTarget(c)
         /\ PreTarget(c).planned_quantity > 0
         /\ PreTarget(c).planned_quantity < PreTarget(c).line_quantity)
        => Cardinality({r \in GroupRows(PreTarget(c).group_id) :
                           RemainderPredicate(r)}) = 1

\* C28 (a failed delete leaves the bookings intact): when deleteProjectLine
\* on an allocation row has failed for want of a remainder, no booking has
\* been deleted, and the row still references the booking it referenced
\* before.
C28_FailedDeleteKeepsBookings ==
    \A c \in Clients :
        (/\ pc[c] = "done"
         /\ DeleteWithoutRemainder(c)
         /\ loc[c].result # "ok")
        => /\ bookings = loc[c].pre.bookings
           /\ \A r \in lines :
                  (r.id = loc[c].call.lineId /\ r.booking_id # NULL)
                  => \E b \in bookings : b.id = r.booking_id

\* allocateProjectLineDays accepts the selection days against the row r.
Accepts(r, days) ==
    allocateError(UniqSorted(days), r,
                  groupIntoConsecutiveRanges(UniqSorted(days))) = "ok"

\* C29 (every positive remainder can be planned): when no operation is in
\* flight, for every remainder with lineQuantity > 0 there is a non-empty
\* selection of days that allocateProjectLineDays accepts against it.
C29_PositiveRemainderPlannable ==
    Quiescent =>
        \A r \in lines :
            (RemainderPredicate(r) /\ r.line_quantity > 0)
            => \E days \in DayArrays : Len(days) > 0 /\ Accepts(r, days)

\* Two bookings hold the same resource on a common day.
Overlap(b1, b2) ==
    /\ b1.consultant_id = b2.consultant_id
    /\ b1.start_date <= b2.end_date
    /\ b2.start_date <= b1.end_date

\* C30 (no double booking): once an allocate has returned, no two bookings
\* of the same resource have overlapping date ranges.
C30_NoDoubleBooking ==
    (\E c \in Clients : Returned(c, "allocate")) =>
        \A b1, b2 \in bookings : b1.id # b2.id => ~Overlap(b1, b2)

=============================================================================
